---- MODULE Spec2Model ----
(***************************************************************************)
(* Model of ghostpass/ghostpass.py: one Ghostpass session object shared by *)
(* the threads of one process, the module-level lock global_mutex, and the *)
(* field operations of class Ghostpass.                                    *)
(*                                                                         *)
(* self.data is a Python list of one-key dicts {field: (username, secret)}.*)
(* A dict is an object: encrypt_fields/decrypt_fields change it in place,  *)
(* remove_field rebinds self.data to a new list holding the same dict      *)
(* objects.  The list therefore holds dict identities, and `dicts` is the  *)
(* heap of the dict objects that are still referenced.                     *)
(*                                                                         *)
(* ghostpass.crypto (AESHelper, MarkovHelper) is not part of the source    *)
(* tree under study; the field cipher is modelled from the specification   *)
(* (section 4.4) as a small padded chained block cipher.                   *)
(***************************************************************************)
EXTENDS Integers, Sequences, FiniteSets, TLC

VARIABLES
    password,   \* self.password: None, or the SHA-512 hex digest
    encrypted,  \* self.encrypted
    data,       \* self.data: the list, as a sequence of dict identities
    dicts,      \* the dict objects: identity -> [name, user, secret]
    lock,       \* global_mutex: NoThread when free, else the holder
    nextId,     \* identity given to the next dict object that is created
    pc,         \* per thread: where it is inside the call it is running
    arg,        \* per thread: the arguments of the running call
    it,         \* per thread: the list iterator of a running en/decrypt pass:
                \* ids (its list, once self.data names another), idx (the
                \* position of the next dict), live (its list is self.data)
    ret,        \* per thread: what the step just taken returned to its caller
                \* (kept for a thread that an error has ended)
    ncalls,     \* number of calls made so far
    overlapped, \* history: some call so far began while another was running
    rt,         \* history: an encrypt pass followed at once by a decrypt pass
    added       \* history, per field name: the values the last add_field that
                \* returned stored under it (none once a remove_field of the
                \* name returned), and whether no overwrite_field of the name
                \* and no encrypt_fields call was made since

vars == <<password, encrypted, data, dicts, lock, nextId, pc, arg, it, ret, ncalls, overlapped, rt, added>>

-----------------------------------------------------------------------------
(* Bounds of the model *)

\* number of calls of the session's operations that the threads make in a run
MaxCalls == 5

-----------------------------------------------------------------------------
(* Inputs *)

Threads == {"main", "worker"}
NoThread == "none"

FieldNames == {"email", "bank"}

\* cleartext strings, as sequences of symbols
Usernames == {<<1>>}
Secrets == {<<2>>, <<3>>}
ClearValues == Usernames \cup Secrets

\* Python None and the empty string, for init_state's arguments
None == "None"
PasswordInputs == {None, "", "Tr0ub4dor&3"}
CorpusInputs == {None, "", "corpus.txt"}

NoPassword == << >>

-----------------------------------------------------------------------------
\* a slip in line 65: the password is stored as it was typed
sha512_skipped(p) == <<"cleartext", p>>

(* hashlib.sha512(...).hexdigest(): a digest is not the cleartext *)
sha512(p) == <<"sha512", p>>

-----------------------------------------------------------------------------
(* FieldCipher: block cipher with padding, keyed from the password hash *)

Modulus == 4
BlockLen == 2
IV == 0

deriveKey(passwordHash) == IF passwordHash = sha512("Tr0ub4dor&3") THEN 1 ELSE 3

Pad(v) ==
    LET p == BlockLen - (Len(v) % BlockLen)
    IN  v \o [i \in 1..p |-> p]

\* chained encryption of the padded value, symbol by symbol
encryptValue(v, key) ==
    LET x == Pad(v)
        c[i \in 0..Len(x)] ==
            IF i = 0 THEN IV ELSE (x[i] + key + c[i - 1]) % Modulus
    IN  [i \in 1..Len(x) |-> c[i]]

Unchain(c, key) ==
    [i \in 1..Len(c) |->
        (c[i] + 2 * Modulus - key - (IF i = 1 THEN IV ELSE c[i - 1])) % Modulus]

\* the ciphertext validates against the key: whole blocks and a sound padding
decryptValid(c, key) ==
    /\ Len(c) > 0
    /\ Len(c) % BlockLen = 0
    /\ LET x == Unchain(c, key)
           p == x[Len(x)]
       IN  /\ p \in 1..BlockLen
           /\ \A i \in (Len(x) - p + 1)..Len(x) : x[i] = p

decryptValue(c, key) ==
    LET x == Unchain(c, key)
    IN  SubSeq(x, 1, Len(x) - x[Len(x)])

-----------------------------------------------------------------------------
(* Helpers on self.data *)

Range(s) == {s[i] : i \in DOMAIN s}

\* the stored entries in list order
Entries == [i \in DOMAIN data |-> dicts[data[i]]]

Idle(t) == pc[t] = "idle"

\* the callers follow the session's life cycle: the field operations are
\* called on a session that init_state has initialized
Initialized == password # NoPassword

\* thread t, between calls, makes its next call
Call(t) ==
    /\ Idle(t)
    /\ ncalls < MaxCalls
    /\ ncalls' = ncalls + 1
    /\ overlapped' = (overlapped \/ \E u \in Threads \ {t} :
                                      pc[u] \notin {"idle", "exited"})

\* thread t calls a field operation
Ready(t) == Initialized /\ Call(t)

NoIter == [ids |-> << >>, idx |-> 0, live |-> FALSE, was |-> FALSE]
NoArg == [field |-> "", user |-> << >>, secret |-> << >>, kept |-> << >>]
NoCred == [user |-> << >>, secret |-> << >>, intact |-> FALSE]
NoRet == [kind |-> "none", rows |-> << >>]
Ret(k) == [kind |-> k, rows |-> << >>]
RtOff == [stage |-> "off", owner |-> NoThread, orig |-> << >>]

\* the list object a pass iterates: self.data itself while the iterator's
\* list is still the one self.data names, else the list it was created on
IterList(t) == IF it[t].live THEN data ELSE it[t].ids

\* the dict objects still referenced: by the list self.data names, by the
\* rest of a list that a running pass still iterates, or by the list that a
\* running remove_field has built
Referenced(dat, its, args) ==
    Range(dat) \cup
    UNION {{its[t].ids[j] : j \in its[t].idx..Len(its[t].ids)} :
             t \in {u \in Threads : its[u].idx > 0 /\ ~its[u].live}} \cup
    UNION {Range(args[t].kept) : t \in Threads}

Collect(d, dat, its, args) ==
    [i \in (DOMAIN d) \cap Referenced(dat, its, args) |-> d[i]]

\* a slip in the scan: it stops after the first dict
check_first_dict_only(field) ==
    data # << >> /\ dicts[data[1]].name = field

\* _check_field_existence: a linear scan of the dicts for the key
check_field_existence(field) ==
    \E i \in DOMAIN data : dicts[data[i]].name = field

\* ret after a step of thread t that hands r to t's caller (NoRet: nothing)
Returns(t, r) ==
    [u \in Threads |->
        IF u = t THEN r ELSE IF pc[u] = "exited" THEN ret[u] ELSE NoRet]

\* raise GhostpassException(message): __init__ prints and calls exit(1), so
\* SystemExit leaves the thread (the process, on the main thread)
GhostpassException(t, kind) ==
    /\ pc' = [pc EXCEPT ![t] = "exited"]
    /\ ret' = Returns(t, Ret(kind))

\* the call of thread t returns (or raises an ordinary exception) to its caller
Return(t, r) ==
    /\ pc' = [pc EXCEPT ![t] = "idle"]
    /\ ret' = Returns(t, r)
    /\ arg' = [arg EXCEPT ![t] = NoArg]

\* a step of thread t inside a call
Goto(t, label) ==
    /\ pc' = [pc EXCEPT ![t] = label]
    /\ ret' = Returns(t, NoRet)

-----------------------------------------------------------------------------
Init ==
    /\ password = NoPassword
    /\ encrypted = FALSE
    /\ data = << >>
    /\ dicts = << >>
    /\ lock = NoThread
    /\ nextId = 1
    /\ pc = [t \in Threads |-> "idle"]
    /\ arg = [t \in Threads |-> NoArg]
    /\ it = [t \in Threads |-> NoIter]
    /\ ret = [t \in Threads |-> NoRet]
    /\ ncalls = 0
    /\ overlapped = FALSE
    /\ rt = RtOff
    /\ added = [f \in FieldNames |-> NoCred]

-----------------------------------------------------------------------------
(* init_state *)
init_state(t, pw, corpus) ==
    /\ UNCHANGED added
    /\ Call(t)
    /\ rt' = RtOff
    /\ IF pw = "" \/ pw = None
         THEN /\ GhostpassException(t, "missing_password")
              /\ UNCHANGED password
         ELSE IF corpus = "" \/ corpus = None
         THEN /\ GhostpassException(t, "missing_corpus")
              /\ UNCHANGED password
         ELSE /\ password' = sha512(pw)
              /\ Return(t, Ret("ok"))
    /\ UNCHANGED <<encrypted, data, dicts, lock, nextId, it>>
    /\ arg' = arg

-----------------------------------------------------------------------------
(* view_field, view_all *)

\* line 115: the existence check that opens view_field
view_field_check(t, field) ==
    /\ UNCHANGED added
    /\ Ready(t)
    /\ rt' = RtOff
    /\ IF ~check_field_existence(field)
         THEN /\ GhostpassException(t, "not_found")
              /\ UNCHANGED arg
         ELSE /\ Goto(t, "view_scan")
              /\ arg' = [arg EXCEPT ![t] = [NoArg EXCEPT !.field = field]]
    /\ UNCHANGED <<password, encrypted, data, dicts, lock, nextId, it>>

\* a row of the table: [key, value[0], value[1]]
Row(e) == <<e.name, e.user, e.secret>>

\* lines 120-125: one row per dict with the key, in list order
FieldRows(field) ==
    LET m == SelectSeq(Entries, LAMBDA e : e.name = field)
    IN  [i \in DOMAIN m |-> Row(m[i])]

\* lines 120-128: the second scan, and the table that is returned
view_field_rows(t) ==
    /\ UNCHANGED <<ncalls, overlapped, added>>
    /\ pc[t] = "view_scan"
    /\ rt' = RtOff
    /\ Return(t, [kind |-> "rows", rows |-> FieldRows(arg[t].field)])
    /\ UNCHANGED <<password, encrypted, data, dicts, lock, nextId, it>>

\* line 135: the comprehension reads the local `field` before its own second
\* clause binds it, so the call raises UnboundLocalError whatever the store holds
view_all(t) ==
    /\ UNCHANGED added
    /\ Ready(t)
    /\ rt' = RtOff
    /\ Return(t, Ret("UnboundLocalError"))
    /\ UNCHANGED <<password, encrypted, data, dicts, lock, nextId, it>>

-----------------------------------------------------------------------------
(* add_field *)

\* lines 143-144: the existence check, made before the lock is taken
add_field_check(t, field, username, secret) ==
    /\ UNCHANGED added
    /\ Ready(t)
    /\ rt' = RtOff
    /\ IF check_field_existence(field)
         THEN /\ GhostpassException(t, "duplicate")
              /\ UNCHANGED arg
         ELSE /\ Goto(t, "add_acquire")
              /\ arg' = [arg EXCEPT ![t] =
                     [NoArg EXCEPT !.field = field, !.user = username,
                                   !.secret = secret]]
    /\ UNCHANGED <<password, encrypted, data, dicts, lock, nextId, it>>

\* a slip in lines 147, 164 and 181: the lock is taken without waiting for it
acquire_without_waiting(t, from, to) ==
    /\ UNCHANGED <<ncalls, overlapped, added>>
    /\ pc[t] = from
    /\ lock' = t
    /\ Goto(t, to)
    /\ rt' = RtOff
    /\ UNCHANGED <<password, encrypted, data, dicts, nextId, arg, it>>

\* global_mutex.acquire() of lines 147, 164 and 181
acquire(t, from, to) ==
    /\ UNCHANGED <<ncalls, overlapped, added>>
    /\ pc[t] = from
    /\ lock = NoThread
    /\ lock' = t
    /\ Goto(t, to)
    /\ rt' = RtOff
    /\ UNCHANGED <<password, encrypted, data, dicts, nextId, arg, it>>

\* a slip: the finally clause is missing, the call returns with the lock held
release_forgotten(t, r) ==
    /\ lock' = lock
    /\ Return(t, r)

\* finally: global_mutex.release() of lines 153, 170 and 185, after which the
\* call hands r to its caller
release(t, r) ==
    /\ lock' = NoThread
    /\ Return(t, r)

\* line 147
add_field_acquire(t) == acquire(t, "add_acquire", "add_cs")

\* a slip in line 149: the tuple is built as (password, username)
NewEntry_swapped(a) == [name |-> a.field, user |-> a.secret, secret |-> a.user]

\* the dict {field: (username, password)} of line 149, stored as it was given
NewEntry(a) == [name |-> a.field, user |-> a.user, secret |-> a.secret]

\* a slip in the locked section: the new cleartext entry resets the flag
add_field_append_resets_flag(t) ==
    /\ UNCHANGED <<ncalls, overlapped>>
    /\ added' = [added EXCEPT ![arg[t].field] =
                    [user |-> arg[t].user, secret |-> arg[t].secret,
                     intact |-> ~encrypted]]
    /\ pc[t] = "add_cs"
    /\ data' = Append(data, nextId)
    /\ dicts' = (nextId :> NewEntry(arg[t])) @@ dicts
    /\ nextId' = nextId + 1
    /\ release(t, Ret("ok"))
    /\ rt' = RtOff
    /\ encrypted' = FALSE
    /\ UNCHANGED <<password, it>>

\* lines 148-153: self.data.append(...), in place on the list self.data
\* names; finally the lock is released and the call returns None
add_field_append(t) ==
    /\ UNCHANGED <<ncalls, overlapped>>
    /\ added' = [added EXCEPT ![arg[t].field] =
                    [user |-> arg[t].user, secret |-> arg[t].secret,
                     intact |-> ~encrypted]]
    /\ pc[t] = "add_cs"
    /\ data' = Append(data, nextId)
    /\ dicts' = (nextId :> NewEntry(arg[t])) @@ dicts
    /\ nextId' = nextId + 1
    /\ release(t, Ret("ok"))
    /\ rt' = RtOff
    /\ UNCHANGED <<password, encrypted, it>>

-----------------------------------------------------------------------------
(* remove_field *)

\* lines 160-161
remove_field_check(t, field) ==
    /\ UNCHANGED added
    /\ Ready(t)
    /\ rt' = RtOff
    /\ IF ~check_field_existence(field)
         THEN /\ GhostpassException(t, "not_found")
              /\ UNCHANGED arg
         ELSE /\ Goto(t, "rm_acquire")
              /\ arg' = [arg EXCEPT ![t] = [NoArg EXCEPT !.field = field]]
    /\ UNCHANGED <<password, encrypted, data, dicts, lock, nextId, it>>

\* line 164
remove_field_acquire(t) == acquire(t, "rm_acquire", "rm_cs")

\* a slip in the condition of line 166: `in` for `not in`
Filtered_inverted(field) == SelectSeq(data, LAMBDA i : dicts[i].name = field)

\* [f for f in self.data if str(field) not in f]
Filtered(field) == SelectSeq(data, LAMBDA i : dicts[i].name # field)

\* a pass that iterates the list self.data named keeps iterating that list
Detached(its) ==
    [t \in Threads |->
        IF its[t].live THEN [its[t] EXCEPT !.ids = data, !.live = FALSE]
                       ELSE its[t]]

\* line 166, right-hand side: the comprehension builds a new list without
\* the field's dicts from the list self.data names
remove_field_filter(t) ==
    /\ UNCHANGED <<ncalls, overlapped, added>>
    /\ pc[t] = "rm_cs"
    /\ arg' = [arg EXCEPT ![t].kept = Filtered(arg[t].field)]
    /\ Goto(t, "rm_assign")
    /\ rt' = RtOff
    /\ UNCHANGED <<password, encrypted, data, dicts, lock, nextId, it>>

\* lines 166-170: self.data is rebound to the new list; finally the lock is
\* released and the call returns None
remove_field_assign(t) ==
    /\ UNCHANGED <<ncalls, overlapped>>
    /\ pc[t] = "rm_assign"
    /\ data' = arg[t].kept
    /\ it' = Detached(it)
    /\ dicts' = Collect(dicts, data', it', [arg EXCEPT ![t] = NoArg])
    /\ added' = [added EXCEPT ![arg[t].field] = NoCred]
    /\ release(t, Ret("ok"))
    /\ rt' = RtOff
    /\ UNCHANGED <<password, encrypted, nextId>>

-----------------------------------------------------------------------------
(* overwrite_field *)

\* lines 177-178
overwrite_field_check(t, field, username, secret) ==
    /\ UNCHANGED added
    /\ Ready(t)
    /\ rt' = RtOff
    /\ IF ~check_field_existence(field)
         THEN /\ GhostpassException(t, "not_found")
              /\ UNCHANGED arg
         ELSE /\ Goto(t, "ow_acquire")
              /\ arg' = [arg EXCEPT ![t] =
                     [NoArg EXCEPT !.field = field, !.user = username,
                                   !.secret = secret]]
    /\ UNCHANGED <<password, encrypted, data, dicts, lock, nextId, it>>

\* line 181
overwrite_field_acquire(t) == acquire(t, "ow_acquire", "ow_cs")

\* lines 182-185: self.data[field] = (username, password) indexes the list
\* self.data with the field name, a string: TypeError, and nothing is stored;
\* finally the lock is released, and the TypeError reaches the caller
overwrite_field_assign(t) ==
    /\ UNCHANGED <<ncalls, overlapped>>
    /\ added' = [added EXCEPT ![arg[t].field].intact = FALSE]
    /\ pc[t] = "ow_cs"
    /\ release(t, Ret("TypeError"))
    /\ rt' = RtOff
    /\ UNCHANGED <<password, encrypted, data, dicts, nextId, it>>

-----------------------------------------------------------------------------
(* encrypt_fields, decrypt_fields *)

\* self.aeshelp, built by init_state from the password hash
aeshelp == deriveKey(password)

Quiescent(t) == pc[t] \in {"idle", "exited"}

IsCleartext(v) == v \in ClearValues

\* the history variable follows one thread's encrypt_fields call on a
\* plaintext session and the decrypt_fields call it makes next, and is
\* dropped by every step of anything else
RtKeep(t) == IF rt.owner = t THEN rt ELSE RtOff
RtStage(t, from, to) ==
    IF rt.owner = t /\ rt.stage = from THEN [rt EXCEPT !.stage = to] ELSE RtOff

\* a fresh list iterator on self.data; `was` remembers what self.encrypted
\* was when the pass was called (history, read by no action)
NewIter == [ids |-> << >>, idx |-> 1, live |-> TRUE, was |-> encrypted]

\* line 192: for f in self.data opens an iterator on the list self.data names
encrypt_fields_begin(t) ==
    /\ Ready(t)
    /\ added' = [f \in FieldNames |-> [added[f] EXCEPT !.intact = FALSE]]
    /\ Goto(t, "enc_loop")
    /\ it' = [it EXCEPT ![t] = NewIter]
    /\ rt' = IF /\ ~encrypted
                /\ \A i \in DOMAIN Entries :
                      IsCleartext(Entries[i].user) /\ IsCleartext(Entries[i].secret)
                /\ \A u \in Threads \ {t} : Quiescent(u)
             THEN [stage |-> "enc", owner |-> t, orig |-> Entries]
             ELSE RtOff
    /\ UNCHANGED <<password, encrypted, data, dicts, lock, nextId, arg>>

\* a slip in line 194: only value[0] goes through the cipher
encryptEntry_username_only(e, key) ==
    [e EXCEPT !.user = encryptValue(e.user, key)]

\* line 194: f[key] = (encrypt(value[0]), encrypt(value[1]))
encryptEntry(e, key) ==
    [e EXCEPT !.user = encryptValue(e.user, key),
              !.secret = encryptValue(e.secret, key)]

\* a slip in the indentation of line 195: self.encrypted = True is inside
\* the loop
encrypt_fields_step_sets_flag(t) ==
    /\ UNCHANGED <<ncalls, overlapped>>
    /\ added' = [f \in FieldNames |-> [added[f] EXCEPT !.intact = FALSE]]
    /\ pc[t] = "enc_loop"
    /\ it[t].idx <= Len(IterList(t))
    /\ LET id == IterList(t)[it[t].idx]
       IN  /\ it' = [it EXCEPT ![t].idx = @ + 1]
           /\ dicts' = Collect([dicts EXCEPT ![id] = encryptEntry(@, aeshelp)],
                               data, it', arg)
    /\ Goto(t, "enc_loop")
    /\ rt' = RtKeep(t)
    /\ encrypted' = TRUE
    /\ UNCHANGED <<password, data, lock, nextId, arg>>

\* one turn of the loop of lines 192-194, on the next dict of the list
encrypt_fields_step(t) ==
    /\ UNCHANGED <<ncalls, overlapped>>
    /\ added' = [f \in FieldNames |-> [added[f] EXCEPT !.intact = FALSE]]
    /\ pc[t] = "enc_loop"
    /\ it[t].idx <= Len(IterList(t))
    /\ LET id == IterList(t)[it[t].idx]
       IN  /\ it' = [it EXCEPT ![t].idx = @ + 1]
           /\ dicts' = Collect([dicts EXCEPT ![id] = encryptEntry(@, aeshelp)],
                               data, it', arg)
    /\ Goto(t, "enc_loop")
    /\ rt' = RtKeep(t)
    /\ UNCHANGED <<password, encrypted, data, lock, nextId, arg>>

\* line 195: the list is exhausted; self.encrypted = True
encrypt_fields_end(t) ==
    /\ UNCHANGED <<ncalls, overlapped, added>>
    /\ pc[t] = "enc_loop"
    /\ it[t].idx > Len(IterList(t))
    /\ encrypted' = TRUE
    /\ it' = [it EXCEPT ![t] = NoIter]
    /\ Return(t, Ret("ok"))
    /\ rt' = RtStage(t, "enc", "encdone")
    /\ UNCHANGED <<password, data, dicts, lock, nextId>>

\* line 202
decrypt_fields_begin(t) ==
    /\ UNCHANGED added
    /\ Ready(t)
    /\ Goto(t, "dec_loop")
    /\ it' = [it EXCEPT ![t] = NewIter]
    /\ rt' = RtStage(t, "encdone", "dec")
    /\ UNCHANGED <<password, encrypted, data, dicts, lock, nextId, arg>>

\* line 204: f[key] = (decrypt(value[0]), decrypt(value[1]))
decryptEntry(e, key) ==
    [e EXCEPT !.user = decryptValue(e.user, key),
              !.secret = decryptValue(e.secret, key)]

\* both values of the dict validate against the key
decryptable(e, key) == decryptValid(e.user, key) /\ decryptValid(e.secret, key)

\* one turn of the loop of lines 202-204
decrypt_fields_step(t) ==
    /\ UNCHANGED <<ncalls, overlapped, added>>
    /\ pc[t] = "dec_loop"
    /\ it[t].idx <= Len(IterList(t))
    /\ LET id == IterList(t)[it[t].idx]
       IN  IF ~decryptable(dicts[id], aeshelp)
             THEN \* the cipher rejects a value: the pass stops here, the
                  \* entries before this one stay decrypted, the flag stays
                  /\ Return(t, Ret("CryptoError"))
                  /\ it' = [it EXCEPT ![t] = NoIter]
                  /\ dicts' = Collect(dicts, data, it', arg)
                  /\ rt' = RtStage(t, "dec", "decdone")
             ELSE /\ it' = [it EXCEPT ![t].idx = @ + 1]
                  /\ dicts' = Collect([dicts EXCEPT ![id] = decryptEntry(@, aeshelp)],
                                      data, it', arg)
                  /\ Goto(t, "dec_loop")
                  /\ rt' = RtKeep(t)
                  /\ UNCHANGED arg
    /\ UNCHANGED <<password, encrypted, data, lock, nextId>>

\* line 205: self.encrypted = False
decrypt_fields_end(t) ==
    /\ UNCHANGED <<ncalls, overlapped, added>>
    /\ pc[t] = "dec_loop"
    /\ it[t].idx > Len(IterList(t))
    /\ encrypted' = FALSE
    /\ it' = [it EXCEPT ![t] = NoIter]
    /\ Return(t, Ret("ok"))
    /\ rt' = RtStage(t, "dec", "decdone")
    /\ UNCHANGED <<password, data, dicts, lock, nextId>>

-----------------------------------------------------------------------------
(* encode_file, decode_file *)

\* crypto.MarkovHelper is not in the source tree: the text it generates is
\* modelled from the specification (sections 4.1-4.3) as a walk over the
\* ordered candidate lists of a small corpus model, one token per payload
\* unit, the candidate at index (value mod candidateCount)
PayloadUnits == {0, 1}
Payloads == {<<u>> : u \in PayloadUnits} \cup
            {<<u, v>> : u \in PayloadUnits, v \in PayloadUnits}
StartContext == "the"
Candidates(context) ==
    CASE context = "the"  -> <<"fox", "lazy">>
      [] context = "fox"  -> <<"jumps", "the">>
      [] context = "lazy" -> <<"dog", "the">>
      [] OTHER            -> <<"sleeps", "the">>

RECURSIVE Walk(_, _)
Walk(context, payload) ==
    IF payload = << >> THEN << >>
    ELSE LET c == Candidates(context)
             token == c[(Head(payload) % Len(c)) + 1]
         IN  <<token>> \o Walk(token, Tail(payload))

\* SteganoCodec.encode: the generated text of a payload
encode(payload) == Walk(StartContext, payload)

\* lines 208-213: self.model.encrypt_text() is called and what it returns is
\* dropped; the method has no return statement
encode_file(t) ==
    /\ Ready(t)
    /\ UNCHANGED added
    /\ rt' = RtOff
    /\ Return(t, Ret("None"))
    /\ UNCHANGED <<password, encrypted, data, dicts, lock, nextId, it>>

\* lines 216-221: the body is `return 0`, whatever the ciphertext is; the
\* method reads nothing of the session
decode_file(t, ciphertext) ==
    /\ Call(t)
    /\ UNCHANGED added
    /\ rt' = RtOff
    /\ Return(t, [kind |-> "int", rows |-> <<0>>])
    /\ UNCHANGED <<password, encrypted, data, dicts, lock, nextId, it>>

-----------------------------------------------------------------------------
Next ==
    \/ \E t \in Threads, pw \in PasswordInputs, c \in CorpusInputs : init_state(t, pw, c)
    \/ \E t \in Threads, f \in FieldNames : view_field_check(t, f)
    \/ \E t \in Threads : view_field_rows(t)
    \/ \E t \in Threads : view_all(t)
    \/ \E t \in Threads, f \in FieldNames, u \in Usernames, s \in Secrets :
          add_field_check(t, f, u, s)
    \/ \E t \in Threads : add_field_acquire(t)
    \/ \E t \in Threads : add_field_append(t)
    \/ \E t \in Threads, f \in FieldNames : remove_field_check(t, f)
    \/ \E t \in Threads : remove_field_acquire(t)
    \/ \E t \in Threads : remove_field_filter(t)
    \/ \E t \in Threads : remove_field_assign(t)
    \/ \E t \in Threads, f \in FieldNames, u \in Usernames, s \in Secrets :
          overwrite_field_check(t, f, u, s)
    \/ \E t \in Threads : overwrite_field_acquire(t)
    \/ \E t \in Threads : overwrite_field_assign(t)
    \/ \E t \in Threads : encrypt_fields_begin(t)
    \/ \E t \in Threads : encrypt_fields_step(t)
    \/ \E t \in Threads : encrypt_fields_end(t)
    \/ \E t \in Threads : decrypt_fields_begin(t)
    \/ \E t \in Threads : decrypt_fields_step(t)
    \/ \E t \in Threads : decrypt_fields_end(t)
    \/ \E t \in Threads : encode_file(t)
    \/ \E t \in Threads, p \in Payloads : decode_file(t, encode(p))

Spec == Init /\ [][Next]_vars

\* the steps of thread t that take the lock, run under it and release it
LockedSection(t) ==
    \/ add_field_acquire(t)
    \/ add_field_append(t)
    \/ remove_field_acquire(t)
    \/ remove_field_filter(t)
    \/ remove_field_assign(t)
    \/ overwrite_field_acquire(t)
    \/ overwrite_field_assign(t)

\* the interpreter keeps running every thread that can run: a thread is not
\* left for ever before a lock that stays free or inside its locked section
FairSpec == Spec /\ \A t \in Threads : WF_vars(LockedSection(t))

TypeOK ==
    /\ encrypted \in BOOLEAN
    /\ lock \in Threads \cup {NoThread}
    /\ nextId \in 1..(MaxCalls + 1)
    /\ ncalls \in 0..MaxCalls
    /\ Range(data) \subseteq DOMAIN dicts

-----------------------------------------------------------------------------
(* Vocabulary of the properties *)

\* the value validates against the session key: it is a ciphertext of it
IsCiphertext(v) == decryptValid(v, aeshelp)

\* the representation of the entry agrees with the flag value b
Agrees(e, b) ==
    IF b THEN IsCiphertext(e.user) /\ IsCiphertext(e.secret)
         ELSE IsCleartext(e.user) /\ IsCleartext(e.secret)

\* no call is in progress
AllQuiescent == \A t \in Threads : Quiescent(t)

\* no error has ended a thread so far
NoExit == \A t \in Threads : pc[t] # "exited"

\* the calls so far were made one at a time, and none has ended its thread
OneAtATime == ~overlapped /\ NoExit

\* the field name is the key of a stored dict
NameStored(f) == \E id \in Range(data) : dicts[id].name = f

\* thread t is inside the part of an operation that changes the store: the
\* locked section of add, remove or overwrite, or a pass that is about to
\* transform a stored dict
InMutation(t) ==
    \/ pc[t] \in {"add_cs", "rm_cs", "rm_assign", "ow_cs"}
    \/ /\ pc[t] \in {"enc_loop", "dec_loop"}
       /\ it[t].idx <= Len(IterList(t))
       /\ IterList(t)[it[t].idx] \in Range(data)

\* a running pass has transformed a stored dict and not yet set the flag
PassPartlyDone ==
    \E t \in Threads :
        /\ pc[t] \in {"enc_loop", "dec_loop"}
        /\ \E j \in 1..(it[t].idx - 1) : IterList(t)[j] \in Range(data)

\* the step ends thread t with error kind k and leaves the store as it was
FailsWith(t, k) ==
    /\ pc'[t] = "exited"
    /\ ret'[t].kind = k
    /\ UNCHANGED <<data, dicts, encrypted, lock>>

-----------------------------------------------------------------------------
(* C1: after any sequence of calls, made one at a time on an initialized
   session, the encrypted flag describes every stored entry: all values are
   ciphertext when it is True, all are cleartext when it is False. *)
C1_FlagDescribesEveryEntry ==
    (Initialized /\ AllQuiescent /\ OneAtATime) =>
        \A i \in DOMAIN Entries : Agrees(Entries[i], encrypted)

(* C2: no two stored dicts have the same field name, whatever the
   interleaving of the callers. *)
C2_FieldNamesUnique ==
    NoExit =>
        \A i, j \in DOMAIN Entries : Entries[i].name = Entries[j].name => i = j

(* C3: the mutating parts of add_field, remove_field, overwrite_field,
   encrypt_fields and decrypt_fields run under the one mutex: no two threads
   are inside mutating parts at the same time. *)
C3_MutationsUnderTheMutex ==
    NoExit => \A t, u \in Threads : (InMutation(t) /\ InMutation(u)) => u = t

(* C4: view_field never reads the store while a pass has transformed some
   entry and not yet set the flag: an observer sees the state before the pass
   or the state after it. *)
C4_PassAtomicToObservers ==
    [][(NoExit /\ \E o \in Threads : view_field_rows(o)) => ~PassPartlyDone]_vars

(* C5: encrypt_fields on a plaintext session followed at once by
   decrypt_fields, with the same key, leaves the entries (names, order,
   usernames, secrets) as they were and the flag False. *)
C5_EncryptDecryptRoundTrip ==
    rt.stage = "decdone" => Entries = rt.orig /\ ~encrypted

C5_Witness ==
    /\ rt.stage = "decdone"
    /\ Len(rt.orig) = 2
    /\ Entries = rt.orig

(* C6: a pass of encrypt_fields that was called while the flag was already
   True encrypts no stored entry that is already ciphertext (it is a no-op or
   an error): no value is encrypted a second time. *)
C6_NoSecondEncryption ==
    [][\A t \in Threads :
          (encrypt_fields_step(t) /\ it[t].was /\ OneAtATime) =>
              \A id \in Range(data) :
                  Agrees(dicts[id], TRUE) => dicts'[id] = dicts[id]]_vars

(* C7: add_field of a stored name ends with the duplicate error, and
   remove_field, overwrite_field and view_field of a name that is not stored
   end with the not-found error; the field collection, the flag and the lock
   are then what they were. *)
C7_ExistenceErrors ==
    [][\A t \in Threads, f \in FieldNames :
          /\ ((\E u \in Usernames, s \in Secrets : add_field_check(t, f, u, s))
                 /\ NameStored(f)) => FailsWith(t, "duplicate")
          /\ (remove_field_check(t, f) /\ ~NameStored(f)) => FailsWith(t, "not_found")
          /\ ((\E u \in Usernames, s \in Secrets : overwrite_field_check(t, f, u, s))
                 /\ ~NameStored(f)) => FailsWith(t, "not_found")
          /\ (view_field_check(t, f) /\ ~NameStored(f)) => FailsWith(t, "not_found")
      ]_vars

C7_Witness ==
    \E t, u \in Threads :
        /\ pc[t] = "exited" /\ ret[t].kind = "duplicate"
        /\ pc[u] = "exited" /\ ret[u].kind = "not_found"
        /\ data # << >>

(* C8: no domain failure ends a thread of the process: after a failed
   operation the session still accepts operations. *)
C8_FailuresAreRecoverable ==
    \A t \in Threads : pc[t] # "exited"

(* C9: overwrite_field of a stored name returns normally and replaces that
   entry's username and secret: view_field then shows the new row; the other
   entries, the order and the flag are unchanged. *)
C9_OverwriteReplaces ==
    [][\A t \in Threads :
          (overwrite_field_assign(t) /\ OneAtATime) =>
              /\ ret'[t].kind = "ok"
              /\ data' = data
              /\ encrypted' = encrypted
              /\ \A id \in Range(data) :
                    dicts'[id] = IF dicts[id].name = arg[t].field
                                   THEN NewEntry(arg[t]) ELSE dicts[id]
      ]_vars

(* C10: view_all returns one row per stored entry, in list order, for every
   store, and changes nothing. *)
C10_ViewAllReturnsRows ==
    [][\A t \in Threads :
          (view_all(t) /\ OneAtATime) =>
              /\ ret'[t] = [kind |-> "rows",
                            rows |-> [i \in DOMAIN Entries |-> Row(Entries[i])]]
              /\ UNCHANGED <<password, encrypted, data, dicts, lock>>
      ]_vars

-----------------------------------------------------------------------------
(* C11: in a run of calls made one at a time, view_field(name) returns
   exactly one row, (name, username, secret) with the values that the last
   successful add_field(name, username, secret) stored on the plaintext
   session, whatever calls were made in between, as long as none of them
   was remove_field or overwrite_field of that name or encrypt_fields. *)
C11_ViewFieldReturnsTheAddedRow ==
    [][\A t \in Threads :
          (view_field_rows(t) /\ OneAtATime /\ added[arg[t].field].intact)
            => ret'[t] = [kind |-> "rows",
                          rows |-> << <<arg[t].field,
                                        added[arg[t].field].user,
                                        added[arg[t].field].secret>> >>]]_vars

\* view_field has returned the row of the entry that was added first, after
\* a second entry was added
C11_Witness ==
    \E t \in Threads :
        /\ OneAtATime
        /\ ret[t].kind = "rows"
        /\ Len(ret[t].rows) = 1
        /\ Len(data) = 2
        /\ ret[t].rows[1][1] = dicts[data[1]].name
        /\ added[ret[t].rows[1][1]].intact

-----------------------------------------------------------------------------
(* C12: decode_file, given the text that the stego codec generates for a
   payload on the initialized session, returns that payload: encoding
   followed by decoding recovers the exact original bytes. *)
C12_StegoRoundTrip ==
    [][\A t \in Threads, p \in Payloads :
          (Initialized /\ NoExit /\ decode_file(t, encode(p)))
            => ret'[t] = [kind |-> "bytes", rows |-> p]]_vars

-----------------------------------------------------------------------------
(* C13: init_state with an empty or missing password, or an empty or
   missing corpus, fails with the validation error before it sets anything:
   the password hash, the flag and the list are left as they were, so on a
   new session the hash stays None, the flag False and the list empty; with
   valid inputs the stored password is the SHA-512 digest of the password,
   not the password. *)
C13_InitStateValidatesFirst ==
    [][\A t \in Threads, pw \in PasswordInputs, c \in CorpusInputs :
          init_state(t, pw, c) =>
            IF pw \in {None, ""} \/ c \in {None, ""}
              THEN /\ pc'[t] = "exited"
                   /\ ret'[t].kind = IF pw \in {None, ""} THEN "missing_password"
                                                         ELSE "missing_corpus"
                   /\ UNCHANGED <<password, encrypted, data, dicts>>
                   /\ password = NoPassword =>
                         password' = NoPassword /\ ~encrypted' /\ data' = << >>
              ELSE /\ pc'[t] = "idle"
                   /\ password' = <<"sha512", pw>>
                   /\ password' # <<"cleartext", pw>>]_vars

\* of two calls, the one with a valid password and no corpus has failed and
\* the one with valid inputs has stored the digest
C13_Witness ==
    \E t \in Threads :
        /\ pc[t] = "exited"
        /\ ret[t].kind = "missing_corpus"
        /\ password = <<"sha512", "Tr0ub4dor&3">>
        /\ ncalls = 2

-----------------------------------------------------------------------------
(* C14: within one encrypt_fields or decrypt_fields pass the flag is set
   after the loop over the entries, not before and not in between: while a
   pass runs (no other call running with it) the flag still has the value it
   had when the pass was called; when an encrypt_fields pass has returned,
   the flag is True and every entry the store held is transformed; and a
   pass that an error stops part-way leaves the flag as it was. *)
C14_FlagFlipsAfterEveryEntry ==
    /\ [](\A t \in Threads :
            (OneAtATime /\ pc[t] \in {"enc_loop", "dec_loop"})
              => encrypted = it[t].was)
    /\ [](rt.stage = "encdone" =>
            /\ encrypted
            /\ Entries = [i \in DOMAIN rt.orig |->
                             [rt.orig[i] EXCEPT
                                 !.user = encryptValue(@, aeshelp),
                                 !.secret = encryptValue(@, aeshelp)]])
    /\ [][\A t \in Threads :
            (/\ pc[t] \in {"enc_loop", "dec_loop"}
             /\ pc'[t] = "idle"
             /\ ret'[t].kind # "ok") => encrypted' = encrypted]_vars

\* an encrypt_fields pass over two entries has returned
C14_Witness ==
    /\ rt.stage = "encdone"
    /\ Len(rt.orig) = 2
    /\ OneAtATime

-----------------------------------------------------------------------------
(* C15: concurrent add_field and remove_field calls have the outcomes of
   some sequential order; in particular a remove_field call that returns
   success has removed an entry, the name being stored when the call takes
   effect, so that of two concurrent remove_field calls on the same name
   one succeeds and the other fails with not-found. *)
C15_LinearHistory ==
    [][\A t \in Threads :
          (NoExit /\ remove_field_assign(t)) => NameStored(arg[t].field)]_vars

-----------------------------------------------------------------------------
(* C16: no update of add_field or remove_field is lost: once all calls
   have returned successfully, however they were interleaved, the store
   holds exactly the names that were added and not removed afterwards, and
   an added entry that no other operation has touched holds the values it
   was added with. *)
C16_NoLostUpdate ==
    (AllQuiescent /\ NoExit) =>
        \A f \in FieldNames :
            /\ NameStored(f) <=> added[f].user # << >>
            /\ added[f].intact =>
                  \E id \in Range(data) :
                      dicts[id] = [name |-> f, user |-> added[f].user,
                                   secret |-> added[f].secret]

\* init_state, two add_field calls and a remove_field call, some of them
\* concurrent, have all returned successfully and one entry is left
C16_Witness ==
    /\ AllQuiescent
    /\ NoExit
    /\ overlapped
    /\ ncalls = 4
    /\ nextId = 3
    /\ Len(data) = 1

-----------------------------------------------------------------------------
(* C17: the store lock is held by a thread exactly while that thread is in
   the locked section of add_field, remove_field or overwrite_field: every
   call that took it has released it when the call ends, with success or
   with an exception; a call that fails its existence check never took it;
   the lock is free when no call is running; and a thread that waits for the
   lock gets it in the end. *)
C17_LockAlwaysReleased ==
    /\ [](\A t \in Threads :
            lock = t <=> pc[t] \in {"add_cs", "rm_cs", "rm_assign", "ow_cs"})
    /\ [](AllQuiescent => lock = NoThread)
    /\ \A t \in Threads :
           (pc[t] \in {"add_acquire", "rm_acquire", "ow_acquire"}) ~> (lock = t)

\* one thread waits for the lock that the other holds
C17_Witness ==
    \E t \in Threads, u \in Threads :
        /\ pc[t] \in {"add_acquire", "rm_acquire", "ow_acquire"}
        /\ lock = u
        /\ u # t

-----------------------------------------------------------------------------
(* C18: a new session has the flag False and an empty list; the flag
   changes only in the step that ends an encrypt_fields pass, to True, or a
   decrypt_fields pass, to False; no step of add_field, remove_field,
   overwrite_field, view_field or view_all, successful or failing, changes
   the flag or the stored password hash. *)
C18_OnlyThePassesSetTheFlag ==
    /\ (encrypted = FALSE /\ data = << >>)
    /\ [][/\ encrypted' # encrypted =>
               \E t \in Threads :
                  \/ pc[t] = "enc_loop" /\ pc'[t] = "idle" /\ encrypted'
                  \/ pc[t] = "dec_loop" /\ pc'[t] = "idle" /\ ~encrypted'
          /\ \A t \in Threads :
               (\/ \E f \in FieldNames, u \in Usernames, s \in Secrets :
                      add_field_check(t, f, u, s) \/ overwrite_field_check(t, f, u, s)
                \/ \E f \in FieldNames :
                      remove_field_check(t, f) \/ view_field_check(t, f)
                \/ add_field_acquire(t) \/ add_field_append(t)
                \/ remove_field_acquire(t) \/ remove_field_filter(t)
                \/ remove_field_assign(t)
                \/ overwrite_field_acquire(t) \/ overwrite_field_assign(t)
                \/ view_field_rows(t) \/ view_all(t))
                 => UNCHANGED <<encrypted, password>>]_vars

\* the flag is True, and add_field, successful and failing, and view_field
\* have been called since the session was created
C18_Witness ==
    /\ encrypted
    /\ Len(data) = 1
    /\ \E t \in Threads : pc[t] = "exited" /\ ret[t].kind = "duplicate"
    /\ \E t \in Threads : ret[t].kind = "rows"

-----------------------------------------------------------------------------
(* C19: the step in which a successful remove_field(name) takes effect
   removes the entries with that name and nothing else: afterwards the name
   is not stored, and the other entries are all there, with their values
   and in their order; the step in which a successful add_field takes
   effect appends the new entry after the existing ones and leaves those as
   they were. *)
C19_RemoveAndAddTouchOneEntry ==
    [][\A t \in Threads :
          /\ remove_field_assign(t) =>
                /\ \A i \in DOMAIN data' : dicts'[data'[i]].name # arg[t].field
                /\ Entries' = SelectSeq(Entries, LAMBDA e : e.name # arg[t].field)
          /\ add_field_append(t) =>
                Entries' = Append(Entries, [name |-> arg[t].field,
                                            user |-> arg[t].user,
                                            secret |-> arg[t].secret])]_vars

\* of two entries added one after the other, the first has been removed and
\* the second is left
C19_Witness ==
    /\ OneAtATime
    /\ AllQuiescent
    /\ nextId = 3
    /\ data = <<2>>

====
